---------------------------- MODULE Spec2Model ----------------------------
(***************************************************************************)
(* A model of the data core of UFCT_backend: the request rate limiter, the *)
(* retrying request, the cursor-paged fetch, the batched collaboration     *)
(* aggregation (src/data/openalex_fetcher.py) and the streaming build of   *)
(* the citation graph (src/models/network.py).                             *)
(*                                                                         *)
(* Each component has its own specification (SpecLimiter, SpecRequest,     *)
(* SpecFetch, SpecAgg, SpecBuild, SpecNetwork, SpecBatch) over its own     *)
(* group of variables; the variables of the other components stay at their *)
(* initial values.                                                         *)
(***************************************************************************)
EXTENDS Integers, Sequences, FiniteSets, Bags, TLC

None == "None"

Min(a, b) == IF a <= b THEN a ELSE b

Max(a, b) == IF a >= b THEN a ELSE b

Range(s) == {s[i] : i \in DOMAIN s}

(***************************************************************************)
(* RateLimiter (openalex_fetcher.py 21-78).  Time is counted in ticks of   *)
(* the clock read by time.time(); min_interval = 1/max_requests_per_second *)
(* is MinInterval ticks.  The clock is taken to be monotonic and           *)
(* time.sleep(d) to return no earlier than d after it was called.          *)
(***************************************************************************)
VARIABLES
    clock,              \* the value time.time() returns
    lock,               \* RateLimiter.lock: the thread holding it, or Unlocked
    last_request_time,  \* RateLimiter.last_request_time
    pc,                 \* per thread: where it is inside acquire
    start_time,         \* per thread: local start_time of acquire
    timeout,            \* per thread: the timeout argument of acquire
    wait_time,          \* per thread: local wait_time of acquire
    wake_at,            \* per thread: the earliest time time.sleep may return
    grants,             \* history: every value written to last_request_time
    returned            \* history: per thread, what its last acquire returned
                        \* ("True", "False"; None while it has not returned)

limiterVars == <<clock, lock, last_request_time, pc, start_time, timeout,
                 wait_time, wake_at, grants, returned>>

NumThreads == 2

MaxTicks == 4

MaxTimeout == 1

MinInterval == 2

Threads == 1..NumThreads

\* The value of lock when no thread holds it.
Unlocked == 0

Timeouts == 0..MaxTimeout

\* time.time() is seconds since the epoch: far more than min_interval.
InitialClock == MinInterval

InitLimiter ==
    /\ clock = InitialClock
    /\ lock = Unlocked
    /\ last_request_time = 0
    /\ pc = [t \in Threads |-> "idle"]
    /\ start_time = [t \in Threads |-> 0]
    /\ timeout = [t \in Threads |-> 0]
    /\ wait_time = [t \in Threads |-> 0]
    /\ wake_at = [t \in Threads |-> 0]
    /\ grants = <<>>
    /\ returned = [t \in Threads |-> None]

\* The passage of time.
Tick ==
    /\ clock < InitialClock + MaxTicks
    /\ clock' = clock + 1
    /\ UNCHANGED <<lock, last_request_time, pc, start_time, timeout,
                   wait_time, wake_at, grants, returned>>

\* line 67: if time_since_last < self.min_interval
NeedsWaitNoSlack(now, last) == now - last < MinInterval - 1

NeedsWait(now, last) == now - last < MinInterval

\* line 68: wait_time = self.min_interval - time_since_last
WaitTime(now, last) == MinInterval - (now - last)

\* line 70: if time.time() - start_time + wait_time > timeout
TimedOutInclusive(t_now, start, wait, limit) == t_now - start + wait >= limit

TimedOut(t_now, start, wait, limit) == t_now - start + wait > limit

\* line 60: start_time = time.time(); the caller then queues for the lock.
Call(t) ==
    /\ pc[t] = "idle"
    /\ \E to \in Timeouts : timeout' = [timeout EXCEPT ![t] = to]
    /\ start_time' = [start_time EXCEPT ![t] = clock]
    /\ pc' = [pc EXCEPT ![t] = "waiting"]
    /\ returned' = [returned EXCEPT ![t] = None]
    /\ UNCHANGED <<clock, lock, last_request_time, wait_time, wake_at, grants>>

\* lines 62-68 and 75-78: take the lock and read now; when min_interval has
\* passed, record now as the grant and return True, else compute wait_time.
Enter(t) ==
    /\ pc[t] = "waiting"
    /\ lock = Unlocked
    /\ IF NeedsWait(clock, last_request_time)
       THEN /\ lock' = t
            /\ wait_time' = [wait_time EXCEPT ![t] =
                                WaitTime(clock, last_request_time)]
            /\ pc' = [pc EXCEPT ![t] = "checking"]
            /\ UNCHANGED <<last_request_time, grants, returned, start_time,
                           timeout>>
       ELSE /\ last_request_time' = clock
            /\ grants' = Append(grants, clock)
            /\ returned' = [returned EXCEPT ![t] = "True"]
            /\ pc' = [pc EXCEPT ![t] = "idle"]
            /\ start_time' = [start_time EXCEPT ![t] = 0]
            /\ timeout' = [timeout EXCEPT ![t] = 0]
            /\ UNCHANGED <<lock, wait_time>>
    /\ UNCHANGED <<clock, wake_at>>

\* lines 70-73: return False when the wait would pass the timeout (the lock
\* is released by the with statement), else go to sleep for wait_time.
CheckTimeout(t) ==
    /\ pc[t] = "checking"
    /\ IF TimedOut(clock, start_time[t], wait_time[t], timeout[t])
       THEN /\ returned' = [returned EXCEPT ![t] = "False"]
            /\ lock' = Unlocked
            /\ pc' = [pc EXCEPT ![t] = "idle"]
            /\ start_time' = [start_time EXCEPT ![t] = 0]
            /\ timeout' = [timeout EXCEPT ![t] = 0]
            /\ UNCHANGED wake_at
       ELSE /\ wake_at' = [wake_at EXCEPT ![t] = clock + wait_time[t]]
            /\ pc' = [pc EXCEPT ![t] = "sleeping"]
            /\ UNCHANGED <<returned, lock, start_time, timeout>>
    /\ wait_time' = [wait_time EXCEPT ![t] = 0]
    /\ UNCHANGED <<clock, last_request_time, grants>>

\* lines 73-74 and 78: time.sleep returns (no earlier than asked), the time
\* read then is recorded as the grant, the lock is released, True returned.
Wake(t) ==
    /\ pc[t] = "sleeping"
    /\ clock >= wake_at[t]
    /\ last_request_time' = clock
    /\ grants' = Append(grants, clock)
    /\ returned' = [returned EXCEPT ![t] = "True"]
    /\ lock' = Unlocked
    /\ pc' = [pc EXCEPT ![t] = "idle"]
    /\ start_time' = [start_time EXCEPT ![t] = 0]
    /\ timeout' = [timeout EXCEPT ![t] = 0]
    /\ wake_at' = [wake_at EXCEPT ![t] = 0]
    /\ UNCHANGED <<clock, wait_time>>

(***************************************************************************)
(* The remote search API as the client sees it.  A page is the JSON body   *)
(* {results: [...], meta: {next_cursor}}; next_cursor may be a token, the  *)
(* empty string or absent (None).                                          *)
(***************************************************************************)
MaxPageLen == 2

Cursors == {"c1", "c2"}

NextCursors == Cursors \cup {None, ""}

\* Python's truth value of a cursor: None and "" are false.
Truthy(c) == c \notin {None, ""}

SeqsUpTo(S, n) == UNION {[1..k -> S] : k \in 0..n}

Pages(pool) ==
    {[results |-> r, next_cursor |-> c] :
        r \in SeqsUpTo(pool, MaxPageLen), c \in NextCursors}

(***************************************************************************)
(* OpenAlexFetcher._make_request (openalex_fetcher.py 155-203).            *)
(***************************************************************************)
VARIABLES
    req_pc,        \* "idle", "rate_limit" (line 176), "get" (line 178), "done"
    max_retries,   \* the max_retries argument
    attempt,       \* the loop variable of line 173
    req_result,    \* how the call ended: [kind |-> "returned", value |-> body],
                   \* [kind |-> "returned_none"], [kind |-> "raised",
                   \* value |-> failure]; [kind |-> "running"] before
    http_log,      \* history: the outcome of every session.get of the call
    acquire_calls, \* history: the number of calls of rate_limiter.acquire
    last_acquire,  \* history: what the last of them returned
    slept          \* history: the argument of every backoff time.sleep

requestVars == <<req_pc, max_retries, attempt, req_result, http_log,
                 acquire_calls, last_acquire, slept>>

MaxRetries == 3

\* What one session.get can end in: a response with a status code (200 with
\* a JSON body or not, 429, another error status), or an exception.
HttpOutcomes ==
    {"200", "200_invalid_json", "429", "500", "Timeout", "ConnectionError"}

Running == [kind |-> "running"]

InitRequest ==
    /\ req_pc = "idle"
    /\ max_retries = 0
    /\ attempt = 0
    /\ req_result = Running
    /\ http_log = <<>>
    /\ acquire_calls = 0
    /\ last_acquire = None
    /\ slept = <<>>

\* lines 182 and 196: if attempt < max_retries
CanRetryOneMore(a, m) == a <= m

CanRetry(a, m) == a < m

\* line 183: wait_time = 2 ** (attempt + 1)
Backoff429(a) == 2 ^ (a + 1)

\* line 197: time.sleep(2 ** attempt)
BackoffTimeout(a) == 2 ^ a

\* line 173: for attempt in range(max_retries + 1)
InRange(a, m) == a < m + 1

\* A call _make_request(..., max_retries=m) starts.
StartRequest(m) ==
    /\ req_pc' = "rate_limit"
    /\ max_retries' = m
    /\ attempt' = 0
    /\ req_result' = Running
    /\ http_log' = <<>>
    /\ acquire_calls' = 0
    /\ last_acquire' = None
    /\ slept' = <<>>

\* A _rate_limit that gives the call up when acquire returns False.
RateLimitAborting ==
    /\ req_pc = "rate_limit"
    /\ \E success \in {"True", "False"} :
          /\ last_acquire' = success
          /\ IF success = "True"
             THEN req_pc' = "get" /\ UNCHANGED req_result
             ELSE /\ req_pc' = "done"
                  /\ req_result' = [kind |-> "raised", value |-> "RateLimitTimeout"]
    /\ acquire_calls' = acquire_calls + 1
    /\ UNCHANGED <<max_retries, attempt, http_log, slept>>

\* lines 145-153 and 176: _rate_limit calls rate_limiter.acquire(timeout=60),
\* which returns True or False (see the limiter); on False it only logs.
RateLimit ==
    /\ req_pc = "rate_limit"
    /\ \E success \in {"True", "False"} : last_acquire' = success
    /\ acquire_calls' = acquire_calls + 1
    /\ req_pc' = "get"
    /\ UNCHANGED <<max_retries, attempt, req_result, http_log, slept>>

\* `continue` (lines 186, 198): the next iteration of the for loop, or the
\* end of the loop, after which the function ends without a return statement.
Continue(delay) ==
    /\ slept' = Append(slept, delay)
    /\ attempt' = attempt + 1
    /\ IF InRange(attempt + 1, max_retries)
       THEN req_pc' = "rate_limit" /\ UNCHANGED req_result
       ELSE req_pc' = "done" /\ req_result' = [kind |-> "returned_none"]

Return(body) ==
    /\ req_pc' = "done"
    /\ req_result' = [kind |-> "returned", value |-> body]
    /\ UNCHANGED <<attempt, slept>>

Raise(failure) ==
    /\ req_pc' = "done"
    /\ req_result' = [kind |-> "raised", value |-> failure]
    /\ UNCHANGED <<attempt, slept>>

\* lines 178-203: session.get and what the loop body does with its outcome.
Get(bodies) ==
    /\ req_pc = "get"
    /\ \E outcome \in HttpOutcomes :
          /\ http_log' = Append(http_log, outcome)
          /\ CASE outcome = "200" ->
                    \E body \in bodies : Return(body)
               [] outcome = "200_invalid_json" ->
                    Raise("JSONDecodeError")
               [] outcome = "429" ->
                    IF CanRetry(attempt, max_retries)
                    THEN Continue(Backoff429(attempt))
                    ELSE Raise("HTTPError 429")
               [] outcome = "500" ->
                    Raise("HTTPError 500")
               [] outcome = "Timeout" ->
                    IF CanRetry(attempt, max_retries)
                    THEN Continue(BackoffTimeout(attempt))
                    ELSE Raise("Timeout")
               [] outcome = "ConnectionError" ->
                    Raise("ConnectionError")
    /\ UNCHANGED <<max_retries, acquire_calls, last_acquire>>

\* The callers of _make_request outside the aggregation (lines 500, 527, 636,
\* 1040, 1082) leave max_retries at its default or pass a smaller count.
CallRequest ==
    /\ req_pc \in {"idle", "done"}
    /\ Len(http_log) <= MaxRetries
    /\ \E m \in 0..MaxRetries : StartRequest(m)

PlainBodies == Pages({"W1"})

(***************************************************************************)
(* OpenAlexFetcher._execute_search (openalex_fetcher.py 374-451): the      *)
(* cursor-paged fetch of works.                                            *)
(***************************************************************************)
VARIABLES
    fetch_pc,      \* "idle", "loop" (in the while loop of line 402), "done"
    limit,         \* the limit argument
    cursor,        \* local cursor
    all_results,   \* local all_results
    page_num,      \* local page_num
    fetch_result,  \* the list the call returned
    received,      \* history: the records of every page received, in order
    sent_cursors,  \* history: the cursor of every page request sent
    fetch_failure, \* history: the failure that ended the loop, or None
    recv_cursors   \* history: meta.next_cursor of every response received

fetchVars == <<fetch_pc, limit, cursor, all_results, page_num, fetch_result,
               received, sent_cursors, fetch_failure, recv_cursors>>

MaxLimit == 3

MaxPages == 3

FetchRecords == {"W1", "W2"}

FetchBodies == Pages(FetchRecords)

InitFetch ==
    /\ fetch_pc = "idle"
    /\ limit = 0
    /\ cursor = None
    /\ all_results = <<>>
    /\ page_num = 0
    /\ fetch_result = <<>>
    /\ received = <<>>
    /\ sent_cursors = <<>>
    /\ fetch_failure = None
    /\ recv_cursors = <<>>

\* Python's s[:n]: the first n items, or all but the last -n when n < 0.
SliceAll(s, n) == s

SliceTo(s, n) ==
    IF n >= 0 THEN SubSeq(s, 1, Min(n, Len(s)))
    ELSE SubSeq(s, 1, Max(Len(s) + n, 0))

\* line 402: while cursor and len(all_results) < limit
LoopConditionCursorOnly(c, results, lim) == Truthy(c)

LoopCondition(c, results, lim) == Truthy(c) /\ Len(results) < lim

\* lines 392-402 (and 451 when the loop is not entered): a call
\* _execute_search(query, filter_str, lim).  limit is a number of records.
CallSearch ==
    /\ fetch_pc \in {"idle", "done"}
    /\ \E lim \in 0..MaxLimit :
          /\ limit' = lim
          /\ IF LoopCondition("*", <<>>, lim)
             THEN fetch_pc' = "loop"
             ELSE fetch_pc' = "done"
    /\ cursor' = "*"
    /\ all_results' = <<>>
    /\ page_num' = 1
    /\ fetch_result' = <<>>
    /\ received' = <<>>
    /\ sent_cursors' = <<>>
    /\ fetch_failure' = None
    /\ recv_cursors' = <<>>

\* line 424: cursor = meta.get('next_cursor')
NextCursorKept(cur, body) == cur

NextCursor(cur, body) == body.next_cursor

\* lines 403-451: one iteration of the loop: session.get is called directly
\* (line 417); a page is appended and the cursor advanced, and any failure
\* ends the loop (lines 440-446); when the loop ends, line 451 returns.
FetchPage ==
    /\ fetch_pc = "loop"
    /\ Len(sent_cursors) < MaxPages
    /\ sent_cursors' = Append(sent_cursors, cursor)
    /\ \E outcome \in HttpOutcomes :
          IF outcome = "200"
          THEN \E body \in FetchBodies :
                  LET results == all_results \o body.results
                  IN  /\ all_results' = results
                      /\ received' = received \o body.results
                      /\ cursor' = NextCursor(cursor, body)
                      /\ recv_cursors' = Append(recv_cursors, body.next_cursor)
                      /\ fetch_failure' = None
                      /\ IF Len(results) >= limit
                            \/ ~Truthy(NextCursor(cursor, body))
                         THEN /\ fetch_pc' = "done"
                              /\ fetch_result' = SliceTo(results, limit)
                              /\ UNCHANGED page_num
                         ELSE /\ page_num' = page_num + 1
                              /\ UNCHANGED <<fetch_pc, fetch_result>>
          ELSE /\ fetch_failure' = outcome
               /\ fetch_pc' = "done"
               /\ fetch_result' = SliceTo(all_results, limit)
               /\ UNCHANGED <<all_results, received, cursor, page_num,
                              recv_cursors>>
    /\ UNCHANGED limit

(***************************************************************************)
(* The graph model (network.py 15-116) and                                 *)
(* CitationNetwork.build_from_openalex_streaming_generator (442-601).      *)
(*                                                                         *)
(* A Python dict is a function on its keys (a record); d.get(k, default)   *)
(* is Lookup.  A list entry that is no dict (None, a string) is NotADict.  *)
(* A title is a sequence of characters.                                    *)
(***************************************************************************)
VARIABLES
    build_pc,            \* "idle", "nodes" (loop of line 476), "edges" (loop
                         \* of line 539), "done" (the build returned)
    min_citations,       \* the min_citations argument
    nodes,               \* NetworkBase.nodes: id -> Node
    edges,               \* NetworkBase.edges: list of Edge
    graph,               \* NetworkBase.graph, an undirected networkx Graph:
                         \* [nodes: set of ids, adj: {u, v} -> weight]
    paper_data,          \* CitationNetwork.paper_data
    valid_node_ids,      \* local valid_node_ids
    node_idx,            \* local node_idx
    skipped_count,       \* local skipped_count
    null_id_count,       \* local null_id_count
    duplicate_id_count,  \* local duplicate_id_count
    edge_weights,        \* local edge_weights, a dict in insertion order:
                         \* a sequence of [key, weight]
    edge_idx,            \* local edge_idx
    first_record,        \* history: id -> the first node record with that id
    consumed,            \* history: the bag of edge candidates consumed
    last_record          \* history: the record of the latest iteration of
                         \* the node loop, while the loop runs

buildVars == <<build_pc, min_citations, nodes, edges, graph, paper_data,
               valid_node_ids, node_idx, skipped_count, null_id_count,
               duplicate_id_count, edge_weights, edge_idx, first_record,
               consumed, last_record>>

MaxNodes == 3

MaxEdges == 2

MaxMinCitations == 2

\* line 507: label=str(title)[:50]
LabelCap == 50

\* lines 497-499: the year of a record without an integer publication_year
DefaultYear == 2020

NotADict == [py_type |-> "NoneType"]

EmptyDict == [k \in {} |-> None]

IsDict(x) == "py_type" \notin DOMAIN x

\* d.get(k, default)
Lookup(d, k, default) == IF k \in DOMAIN d THEN d[k] ELSE default

\* `not x` for a list entry: None and the empty dict are false.
Falsy(x) == ~IsDict(x) \/ DOMAIN x = {}

Unknown == <<"U", "n", "k", "n", "o", "w", "n">>

ShortTitle == <<"A">>

LongTitle == [i \in 1..(LabelCap + 1) |-> "x"]

PaperIds == {"W1", "W2"}

\* The node records a caller may pass: works with an id and a title, with no
\* title, with no id or an empty one, and entries that are no record.
NodeRecords ==
    {[id |-> i, title |-> ShortTitle] : i \in PaperIds}
    \cup {[id |-> "W1", title |-> LongTitle], [id |-> "W2"]}
    \cup {[title |-> ShortTitle], [id |-> "", title |-> ShortTitle]}
    \cup {NotADict, EmptyDict}

\* The edge candidates a generator may yield: with or without a weight,
\* lacking an endpoint, and entries that are no record.
EdgeCandidates ==
    {[source |-> a, target |-> b] : a, b \in PaperIds}
    \cup {[source |-> "W1", target |-> "W2", weight |-> 2],
          [source |-> "W2", target |-> "W1", weight |-> 2]}
    \cup {[source |-> "W1"], [target |-> "W2", weight |-> 2], NotADict}

InitBuild ==
    /\ build_pc = "idle"
    /\ min_citations = 1
    /\ nodes = EmptyDict
    /\ edges = <<>>
    /\ graph = [nodes |-> {}, adj |-> EmptyDict]
    /\ paper_data = EmptyDict
    /\ valid_node_ids = {}
    /\ node_idx = 0
    /\ skipped_count = 0
    /\ null_id_count = 0
    /\ duplicate_id_count = 0
    /\ edge_weights = <<>>
    /\ edge_idx = 0
    /\ first_record = EmptyDict
    /\ consumed = EmptyBag
    /\ last_record = EmptyDict

\* d[k] = v on a dict held as a function.
Store(d, k, v) == [x \in DOMAIN d \cup {k} |-> IF x = k THEN v ELSE d[x]]

\* Graph.add_node
GraphAddNode(g, n) == [g EXCEPT !.nodes = @ \cup {n}]

\* Graph.add_edge(u, v, weight=w): an undirected graph keeps one edge per
\* unordered pair {u, v} and overwrites its attributes.
GraphAddEdge(g, u, v, w) ==
    [nodes |-> g.nodes \cup {u, v}, adj |-> Store(g.adj, {u, v}, w)]

\* lines 493-516: the Node built from a record.
TitleOf(rec) ==
    LET title == Lookup(rec, "title", Unknown)
    IN  IF title = <<>> THEN Unknown ELSE title

NodeOf(rec) ==
    [id |-> rec.id,
     label |-> SubSeq(TitleOf(rec), 1, Min(LabelCap, Len(TitleOf(rec)))),
     node_type |-> "paper",
     metadata |-> [title |-> TitleOf(rec), year |-> DefaultYear,
                   citation_count |-> 0, venue |-> Unknown, url |-> <<>>]]

\* lines 518-522
PaperDataOf(rec) ==
    [title |-> TitleOf(rec), year |-> DefaultYear, citation_count |-> 0]

\* line 487: if node_id in valid_node_ids
IsDuplicateNever(node_id, seen) == FALSE

IsDuplicate(node_id, seen) == node_id \in seen

\* A test that takes the empty string for an id.
NoIdOnlyNone(i) == i = None

\* `not node_id` (line 482), `not source_id` (line 548)
NoId(i) == i \in {None, ""}

\* A call network = CitationNetwork();
\* network.build_from_openalex_streaming_generator(nodes, gen, min_citations)
\* (network_service.py 268-277); with an empty node list it returns at once
\* (lines 466-468).
CallBuild ==
    /\ build_pc = "idle"
    /\ \E m \in 1..MaxMinCitations : min_citations' = m
    /\ \E empty \in BOOLEAN :
          build_pc' = IF empty THEN "done" ELSE "nodes"
    /\ nodes' = EmptyDict
    /\ edges' = <<>>
    /\ graph' = [nodes |-> {}, adj |-> EmptyDict]
    /\ paper_data' = EmptyDict
    /\ valid_node_ids' = {}
    /\ node_idx' = 0
    /\ skipped_count' = 0
    /\ null_id_count' = 0
    /\ duplicate_id_count' = 0
    /\ edge_weights' = <<>>
    /\ edge_idx' = 0
    /\ first_record' = EmptyDict
    /\ consumed' = EmptyBag
    /\ last_record' = EmptyDict

\* lines 476-526: one iteration of the node loop, on the next record.
AddNode ==
    /\ build_pc = "nodes"
    /\ node_idx < MaxNodes
    /\ node_idx' = node_idx + 1
    /\ \E rec \in NodeRecords :
          LET node_id == IF IsDict(rec) THEN Lookup(rec, "id", None) ELSE None
          IN  /\ last_record' = rec
              /\ first_record' =
                    IF NoId(node_id) \/ node_id \in DOMAIN first_record
                    THEN first_record
                    ELSE Store(first_record, node_id, rec)
              /\ IF Falsy(rec)
                 THEN /\ skipped_count' = skipped_count + 1
                      /\ UNCHANGED <<null_id_count, duplicate_id_count,
                                     valid_node_ids, nodes, graph, paper_data>>
                 ELSE IF NoId(node_id)
                 THEN /\ null_id_count' = null_id_count + 1
                      /\ UNCHANGED <<skipped_count, duplicate_id_count,
                                     valid_node_ids, nodes, graph, paper_data>>
                 ELSE IF IsDuplicate(node_id, valid_node_ids)
                 THEN /\ duplicate_id_count' = duplicate_id_count + 1
                      /\ UNCHANGED <<skipped_count, null_id_count,
                                     valid_node_ids, nodes, graph, paper_data>>
                 ELSE /\ valid_node_ids' = valid_node_ids \cup {node_id}
                      /\ nodes' = Store(nodes, node_id, NodeOf(rec))
                      /\ graph' = GraphAddNode(graph, node_id)
                      /\ paper_data' = Store(paper_data, node_id, PaperDataOf(rec))
                      /\ UNCHANGED <<skipped_count, null_id_count,
                                     duplicate_id_count>>
    /\ UNCHANGED <<build_pc, min_citations, edges, edge_weights, edge_idx,
                   consumed>>

\* lines 528-536: the (non-empty) node list is exhausted.
EndNodes ==
    /\ build_pc = "nodes"
    /\ node_idx >= 1
    /\ build_pc' = "edges"
    /\ last_record' = EmptyDict
    /\ UNCHANGED <<min_citations, nodes, edges, graph, paper_data,
                   valid_node_ids, node_idx, skipped_count, null_id_count,
                   duplicate_id_count, edge_weights, edge_idx, first_record,
                   consumed>>

\* line 552: if source_id in valid_node_ids and target_id in valid_node_ids
BothValidEither(s, t, valid) == s \in valid \/ t \in valid

BothValid(s, t, valid) == s \in valid /\ t \in valid

\* edge_weights.get(key, 0)
WeightOf(ew, key) ==
    IF \E i \in DOMAIN ew : ew[i].key = key
    THEN ew[CHOOSE i \in DOMAIN ew : ew[i].key = key].weight
    ELSE 0

\* edge_weights[key] = w: a new key goes last, an old one keeps its place.
SetWeight(ew, key, w) ==
    IF \E i \in DOMAIN ew : ew[i].key = key
    THEN [i \in DOMAIN ew |->
            IF ew[i].key = key THEN [key |-> key, weight |-> w] ELSE ew[i]]
    ELSE Append(ew, [key |-> key, weight |-> w])

\* line 554: edge_weights[edge_key] =
\*               edge_weights.get(edge_key, 0) + edge_data.get('weight', 1)
AccumulateLast(ew, key, w) == SetWeight(ew, key, w)

\* An accumulator that keeps one entry for every occurrence.
AccumulateEach(ew, key, w) == Append(ew, [key |-> key, weight |-> w])

Accumulate(ew, key, w) == SetWeight(ew, key, WeightOf(ew, key) + w)

\* lines 542-549: the candidate is a record with a source and a target.
WellFormed(cand) ==
    /\ ~Falsy(cand)
    /\ ~NoId(Lookup(cand, "source", None))
    /\ ~NoId(Lookup(cand, "target", None))

\* lines 539-563: one iteration of the edge loop, on the next candidate.
ConsumeEdge ==
    /\ build_pc = "edges"
    /\ edge_idx < MaxEdges
    /\ edge_idx' = edge_idx + 1
    /\ \E cand \in EdgeCandidates :
          /\ consumed' = consumed (+) SetToBag({cand})
          /\ IF WellFormed(cand) /\ BothValid(cand.source, cand.target,
                                            valid_node_ids)
             THEN edge_weights' =
                     Accumulate(edge_weights, <<cand.source, cand.target>>,
                                Lookup(cand, "weight", 1))
             ELSE UNCHANGED edge_weights
    /\ UNCHANGED <<build_pc, min_citations, nodes, edges, graph, paper_data,
                   valid_node_ids, node_idx, skipped_count, null_id_count,
                   duplicate_id_count, first_record, last_record>>

\* line 577: if weight >= min_citations
ClearsBelow(w, m) == w <= m

Clears(w, m) == w >= m

\* lines 576-584: the Edge objects of the accumulated pairs that clear the
\* threshold, in the order of the dict.
EdgeOf(entry) ==
    [source |-> entry.key[1], target |-> entry.key[2], edge_type |-> "cites",
     weight |-> entry.weight, metadata |-> [citation_type |-> "direct"]]

Materialize(ew, m) ==
    LET kept == SelectSeq(ew, LAMBDA e : Clears(e.weight, m))
    IN  [i \in DOMAIN kept |-> EdgeOf(kept[i])]

\* NetworkBase.add_edge (lines 56-59), for each edge of es in turn.
RECURSIVE AddEdges(_, _)
AddEdges(g, es) ==
    IF es = <<>> THEN g
    ELSE AddEdges(GraphAddEdge(g, Head(es).source, Head(es).target,
                               Head(es).weight), Tail(es))

\* networkx.Graph.degree: a self-loop counts twice.
Degree(g, n) ==
    Cardinality({e \in DOMAIN g.adj : n \in e})
    + Cardinality({e \in DOMAIN g.adj : e = {n}})

\* A last phase that prunes the nodes without an edge.
PruneIsolated(g, valid, nodemap) ==
    [g EXCEPT !.nodes = {n \in @ : Degree(g, n) > 0}]

\* lines 588-598: the valid ids that are nodes of self.nodes but not of the
\* graph are added to the graph.
AddIsolated(g, valid, nodemap) ==
    [g EXCEPT !.nodes = @ \cup {n \in valid \ g.nodes : n \in DOMAIN nodemap}]

\* lines 565-601: the generator is exhausted; the edges are materialized,
\* the isolated nodes added, and the build returns.
EndEdges ==
    /\ build_pc = "edges"
    /\ edges' = edges \o Materialize(edge_weights, min_citations)
    /\ graph' = AddIsolated(AddEdges(graph, Materialize(edge_weights,
                                                        min_citations)),
                            valid_node_ids, nodes)
    /\ build_pc' = "done"
    /\ UNCHANGED <<min_citations, nodes, paper_data, valid_node_ids, node_idx,
                   skipped_count, null_id_count, duplicate_id_count,
                   edge_weights, edge_idx, first_record, consumed,
                   last_record>>

\* networkx.density(G) for an undirected G, as the fraction <<num, den>>:
\* 0 when m = 0 or n <= 1, else 2m / (n(n-1)).
Density(g) ==
    LET n == Cardinality(g.nodes)
        m == Cardinality(DOMAIN g.adj)
    IN  IF m = 0 \/ n <= 1 THEN <<0, 1>> ELSE <<2 * m, n * (n - 1)>>

RECURSIVE SumOver(_, _)
SumOver(S, f) ==
    IF S = {} THEN 0
    ELSE LET x == CHOOSE y \in S : TRUE
         IN  f[x] + SumOver(S \ {x}, f)

\* max() of a non-empty set of numbers
MaxOf(S) == CHOOSE x \in S : \A y \in S : y <= x

\* NetworkBase.get_node_importance (lines 61-88) on the graph g: how the call
\* ends.  The degree metric divides each degree by the largest one (line 75,
\* a fraction <<num, den>>), which raises when that is 0; the centralities
\* of networkx are not computed here; any other name is answered by a call
\* with "degree" (lines 86-88).  The call changes nothing.
Metrics == {"degree", "betweenness", "closeness", "pagerank"}

RECURSIVE get_node_importance(_, _)
get_node_importance(g, metric) ==
    IF metric = "degree"
    THEN LET importance == [n \in g.nodes |-> Degree(g, n)]
             max_degree == IF g.nodes # {}
                           THEN MaxOf({importance[n] : n \in g.nodes})
                           ELSE 1
         IN  IF max_degree = 0
             THEN [kind |-> "raised", value |-> "ZeroDivisionError"]
             ELSE [kind |-> "returned",
                   value |-> [n \in g.nodes |-> <<importance[n], max_degree>>]]
    ELSE IF metric \in Metrics
    THEN [kind |-> "returned", value |-> [networkx |-> metric]]
    ELSE get_node_importance(g, "degree")

\* NetworkBase.to_json (lines 90-116), its metadata; the call changes
\* nothing.  Fractions are pairs <<num, den>>.
to_json_metadata ==
    [total_nodes |-> Cardinality(DOMAIN nodes),
     total_edges |-> Len(edges),
     network_density |-> Density(graph),
     avg_degree |->
        IF graph.nodes # {}
        THEN <<SumOver(graph.nodes, [n \in graph.nodes |-> Degree(graph, n)]),
               Cardinality(graph.nodes)>>
        ELSE <<0, 1>>]

(***************************************************************************)
(* OpenAlexFetcher.get_collaboration_by_authors_batch (openalex_fetcher.py *)
(* 663-951) with _get_optimal_batch_size (205-238) and _batch_by_or_syntax *)
(* (240-263).                                                              *)
(*                                                                         *)
(* An author id is [url, key]: url tells whether it is written as a full   *)
(* URL (https://openalex.org/A<key>) or as the short id A<key>.  The API   *)
(* always writes author ids as URLs.                                       *)
(***************************************************************************)
VARIABLES
    agg_pc,               \* "idle", "paging" (before a page request), "done"
    author_ids,           \* the argument author_ids
    max_papers_per_batch, \* the argument max_papers_per_batch
    batch_size,           \* line 737
    batches,              \* line 763
    batch_a_idx,          \* line 767
    batch_b_idx,          \* line 768
    total_requests,       \* line 760
    collaborations,       \* line 754: key -> {from, to, weight}
    all_works,            \* line 807
    agg_cursor,           \* line 808
    page_count,           \* line 809
    agg_result,           \* the returned list, as the set of its entries
    queries,              \* history: the batch pairs paginated, in order
    failed,               \* history: the batch pairs whose request raised
    last_tally            \* history: the number of records held and the cursor
                          \* held when the latest pagination ended

aggVars == <<agg_pc, author_ids, max_papers_per_batch, batch_size, batches,
             batch_a_idx, batch_b_idx, total_requests, collaborations,
             all_works, agg_cursor, page_count, agg_result, queries, failed,
             last_tally>>

MaxAuthors == 120

MaxPapersPerBatch == 1

MaxAggPages == 2

\* line 800: 'per_page': 200, the most records a page carries; scaled to 1.
PerPage == 1

\* line 256: the OR filter takes at most 100 values.
OrSyntaxCap == 100

AuthorId(i) == [url |-> i % 2 = 1, key |-> i]

ApiAuthorId(i) == [url |-> TRUE, key |-> i]

\* An id that is absent, None or the empty string.
NoAuthorId == [url |-> FALSE, key |-> 0]

\* lines 723-726 and 862: the last path segment of a URL, else the id itself.
ShortId(a) == a.key

\* sorted() on two id strings: an upper-case short id sorts before "https".
IdLess(x, y) == IF x.url = y.url THEN x.key < y.key ELSE ~x.url

SortedPair(x, y) == IF IdLess(y, x) THEN <<y, x>> ELSE <<x, y>>

\* The sizes of the id list of a call: the smallest ones, the sizes on both
\* sides of each step of the batch size table, some in between, the largest.
AuthorCounts ==
    {n \in 0..MaxAuthors :
        n <= 2 \/ n % 20 = 0 \/ n % 25 \in {0, 1} \/ n = MaxAuthors}

AuthorLists == {[i \in 1..n |-> AuthorId(i)] : n \in AuthorCounts}

\* The table without its step at 200 items.
get_optimal_batch_size_no_50(num_items) ==
    IF num_items <= 50
    THEN IF num_items <= 25 THEN num_items ELSE 25
    ELSE IF num_items <= 500 THEN 60
    ELSE 70

\* lines 227-238
get_optimal_batch_size(num_items) ==
    IF num_items <= 50
    THEN IF num_items <= 25 THEN num_items ELSE 25
    ELSE IF num_items <= 200 THEN 50
    ELSE IF num_items <= 500 THEN 60
    ELSE 70

\* The slicing without the cap on the batch size.
batch_by_or_syntax_uncapped(ids, size) ==
    LET starts == {i \in 0..(Len(ids) - 1) : i % size = 0}
    IN  [k \in 1..Cardinality(starts) |->
            SubSeq(ids, (k - 1) * size + 1, Min(k * size, Len(ids)))]

\* lines 256-263: ids[i:i + batch_size] for i in range(0, len(ids), batch_size)
batch_by_or_syntax(ids, size) ==
    LET s == IF size > OrSyntaxCap THEN OrSyntaxCap ELSE size
        starts == {i \in 0..(Len(ids) - 1) : i % s = 0}
    IN  [k \in 1..Cardinality(starts) |->
            SubSeq(ids, (k - 1) * s + 1, Min(k * s, Len(ids)))]

\* lines 720-727
short_ids(ids) == [i \in DOMAIN ids |-> ShortId(ids[i])]

\* line 728: full_ids[short_id] = author_id
full_ids(short) ==
    LET i == CHOOSE j \in DOMAIN author_ids :
                 /\ ShortId(author_ids[j]) = short
                 /\ \A k \in DOMAIN author_ids :
                       ShortId(author_ids[k]) = short => k <= j
    IN  author_ids[i]

\* A work record of the API with the given authors, in order.
Work(authors) ==
    [authorships |->
        [i \in DOMAIN authors |-> [author |-> [id |-> ApiAuthorId(authors[i])]]]]

\* A work whose authorship has "author": null.
NullAuthorWork == [authorships |-> <<[author |-> NotADict]>>]

\* The works the API may return to a call with n author ids: two co-authors
\* of the first batch, one of them listed twice, a co-authorship of the first
\* and the last author, and the malformed record.
AggWorks(n) == {Work(<<1, 1, 2>>), Work(<<1, n>>), NullAuthorWork}

\* The bodies _make_request may return: at most PerPage works a page, and
\* meta.next_cursor a token or absent.
AggBodies(n) ==
    {[results |-> r, next_cursor |-> c] :
        r \in SeqsUpTo(AggWorks(n), PerPage), c \in {None, "c1"}}

\* What a call of _make_request ends in: a body, or the failure it raises.
AggResponses(n) ==
    {[kind |-> "returned", value |-> b] : b \in AggBodies(n)}
        \cup {[kind |-> "raised", value |-> "Timeout"]}

NoTally == [held |-> 0, cursor |-> None]

InitAgg ==
    /\ agg_pc = "idle"
    /\ author_ids = <<>>
    /\ max_papers_per_batch = 0
    /\ batch_size = 0
    /\ batches = <<>>
    /\ batch_a_idx = 0
    /\ batch_b_idx = 0
    /\ total_requests = 0
    /\ collaborations = EmptyDict
    /\ all_works = <<>>
    /\ agg_cursor = None
    /\ page_count = 0
    /\ agg_result = {}
    /\ queries = <<>>
    /\ failed = {}
    /\ last_tally = NoTally

\* line 770: if batch_a_idx > batch_b_idx: continue
SkipsNothing(a, b) == FALSE

Skips(a, b) == a > b

\* lines 767-773: the index pairs the two loops still reach after (a, b) and
\* do not skip, and the first of them.
Later(a, b, num_batches) ==
    {p \in (0..(num_batches - 1)) \X (0..(num_batches - 1)) :
        /\ p[1] > a \/ (p[1] = a /\ p[2] > b)
        /\ ~Skips(p[1], p[2])}

FirstOf(S) ==
    CHOOSE p \in S : \A q \in S : p[1] < q[1] \/ (p[1] = q[1] /\ p[2] <= q[2])

\* lines 857-864: the author ids of a work that are ids of the batch, as
\* short ids in the order of the authorships.
Raises(work) ==
    /\ "authorships" \in DOMAIN work
    /\ \E i \in DOMAIN work.authorships :
          ~IsDict(Lookup(work.authorships[i], "author", EmptyDict))

AuthorshipIds(work) ==
    IF "authorships" \in DOMAIN work
    THEN [i \in DOMAIN work.authorships |->
            Lookup(Lookup(work.authorships[i], "author", EmptyDict),
                   "id", NoAuthorId)]
    ELSE <<>>

Members(work, batch) ==
    LET found == SelectSeq(AuthorshipIds(work),
                     LAMBDA a : a # NoAuthorId /\ ShortId(a) \in Range(batch))
    IN  [i \in DOMAIN found |-> ShortId(found[i])]

\* tuple(sorted([a, b])) on short ids
ShortPair(a, b) == IF a <= b THEN <<a, b>> ELSE <<b, a>>

\* lines 867-870: one hit for each work and each i < j of its members.
WithinHits(works, batch) ==
    UNION {LET m == Members(works[w], batch)
           IN  {<<w, p[1], p[2], m[p[1]], m[p[2]]>> :
                   p \in {q \in (DOMAIN m) \X (DOMAIN m) : q[1] < q[2]}} :
           w \in DOMAIN works}

\* lines 904-908: one hit for each work and each member of batch a with each
\* other member of batch b.
CrossHits(works, batch_a, batch_b) ==
    UNION {LET ma == Members(works[w], batch_a)
               mb == Members(works[w], batch_b)
           IN  {<<w, p[1], p[2], ma[p[1]], mb[p[2]]>> :
                   p \in {q \in (DOMAIN ma) \X (DOMAIN mb) : ma[q[1]] # mb[q[2]]}} :
           w \in DOMAIN works}

\* lines 853-870 and 887-908: author_pair_works, the number of hits by pair.
author_pair_works(works, a, b) ==
    LET hits == IF a = b
                THEN WithinHits(works, batches[a + 1])
                ELSE CrossHits(works, batches[a + 1], batches[b + 1])
    IN  [p \in {ShortPair(h[4], h[5]) : h \in hits} |->
            Cardinality({h \in hits : ShortPair(h[4], h[5]) = p})]

\* lines 873-883 and 911-921: a pair enters collaborations only when its key
\* is not there yet.
Merge(collab, pair_works) ==
    LET KeyOf(p) == SortedPair(full_ids(p[1]), full_ids(p[2]))
        PairOf(key) == ShortPair(ShortId(key[1]), ShortId(key[2]))
        keys == {KeyOf(p) : p \in DOMAIN pair_works}
    IN  [key \in DOMAIN collab \cup keys |->
            IF key \in DOMAIN collab
            THEN collab[key]
            ELSE [from |-> key[1], to |-> key[2],
                  weight |-> pair_works[PairOf(key)]]]

\* A tally that loses what was accumulated when a record makes it raise.
TallyReset(collab, works, a, b) ==
    IF \E w \in DOMAIN works : Raises(works[w])
    THEN EmptyDict
    ELSE Merge(collab, author_pair_works(works, a, b))

\* lines 851-928: the tally of the works of one batch pair; a record that
\* makes the tally raise leaves collaborations as it was (line 926).
Tally(collab, works, a, b) ==
    IF \E w \in DOMAIN works : Raises(works[w])
    THEN collab
    ELSE Merge(collab, author_pair_works(works, a, b))

\* lines 767-773 and 807-809: go on to the next batch pair that is not
\* skipped and start its pagination, or return (line 951).
Advance(a, b, num_batches, collab) ==
    LET rest == Later(a, b, num_batches)
    IN  /\ collaborations' = collab
        /\ all_works' = <<>>
        /\ page_count' = 0
        /\ IF rest = {}
           THEN /\ agg_pc' = "done"
                /\ agg_result' = {collab[k] : k \in DOMAIN collab}
                /\ agg_cursor' = None
                /\ UNCHANGED <<batch_a_idx, batch_b_idx, total_requests, queries>>
           ELSE /\ agg_pc' = "paging"
                /\ batch_a_idx' = FirstOf(rest)[1]
                /\ batch_b_idx' = FirstOf(rest)[2]
                /\ total_requests' = total_requests + 1
                /\ queries' = Append(queries, FirstOf(rest))
                /\ agg_cursor' = "*"
                /\ UNCHANGED agg_result

\* lines 716-773: a call get_collaboration_by_authors_batch(ids, max_papers).
CallAggregate ==
    /\ agg_pc = "idle"
    /\ \E ids \in AuthorLists, max_papers \in {0, MaxPapersPerBatch} :
          /\ author_ids' = ids
          /\ max_papers_per_batch' = max_papers
          /\ IF ids = <<>>
             THEN /\ agg_pc' = "done"
                  /\ agg_result' = {}
                  /\ UNCHANGED <<batch_size, batches, batch_a_idx, batch_b_idx,
                                 total_requests, collaborations, all_works,
                                 agg_cursor, page_count, queries, failed>>
             ELSE LET size == get_optimal_batch_size(Len(ids))
                      groups == batch_by_or_syntax(short_ids(ids), size)
                  IN  /\ batch_size' = size
                      /\ failed' = {}
                      /\ batches' = groups
                      /\ Advance(0, -1, Len(groups), EmptyDict)
    /\ last_tally' = NoTally

\* line 846: if len(all_works) > max_papers_per_batch: break
ExceedsNever(works, cap) == FALSE

Exceeds(works, cap) == Len(works) > cap

\* lines 812-848: one iteration of the pagination loop, and, when it ends
\* the loop, the tally of the batch pair and the step to the next one.  The
\* API ends a pagination within MaxAggPages pages.
AggPage ==
    /\ agg_pc = "paging"
    /\ \E resp \in AggResponses(Len(author_ids)) :
          LET raised == resp.kind = "raised"
              works == IF raised THEN all_works
                       ELSE all_works \o resp.value.results
              next_cursor == IF raised THEN agg_cursor
                             ELSE resp.value.next_cursor
              ends == \/ raised
                      \/ Exceeds(works, max_papers_per_batch)
                      \/ ~Truthy(next_cursor)
          IN  /\ page_count + 1 = MaxAggPages =>
                    raised \/ ~Truthy(next_cursor)
              /\ failed' = IF raised
                           THEN failed \cup {<<batch_a_idx, batch_b_idx>>}
                           ELSE failed
              /\ last_tally' = IF ends
                               THEN [held |-> Len(works), cursor |-> next_cursor]
                               ELSE last_tally
              /\ IF ends
                 THEN Advance(batch_a_idx, batch_b_idx, Len(batches),
                              Tally(collaborations, works,
                                    batch_a_idx, batch_b_idx))
                 ELSE /\ all_works' = works
                      /\ agg_cursor' = next_cursor
                      /\ page_count' = page_count + 1
                      /\ UNCHANGED <<agg_pc, batch_a_idx, batch_b_idx,
                                     total_requests, collaborations,
                                     agg_result, queries>>
    /\ UNCHANGED <<author_ids, max_papers_per_batch, batch_size, batches>>

(***************************************************************************)
(* A network object used through NetworkBase.add_node and add_edge         *)
(* (network.py 45-59), as the builders use it: nodes are added once each,  *)
(* edges join nodes added before, one Edge for a directed pair.  The nodes *)
(* of the networkx graph are kept in the order they were added in, which   *)
(* is the order the graph's connected components are listed in; papers are *)
(* numbered.                                                               *)
(***************************************************************************)
VARIABLES
    net_nodes,     \* the keys of self.nodes and the nodes of self.graph,
                   \* in the order of insertion
    net_edges      \* self.edges, each Edge as <<source, target>>

netVars == <<net_nodes, net_edges>>

MaxNetNodes == 3

MaxNetEdges == 2

InitNetwork ==
    /\ net_nodes = <<>>
    /\ net_edges = <<>>

\* self.graph, an undirected graph, in the shape of the graph of the build.
net_graph ==
    [nodes |-> Range(net_nodes),
     adj |-> [e \in {{x[1], x[2]} : x \in Range(net_edges)} |-> 1]]

\* add_node(Node(id=n, ...)) for a paper not in the network yet.
NetAddNode ==
    /\ Len(net_nodes) < MaxNetNodes
    /\ \E n \in (1..MaxNetNodes) \ Range(net_nodes) :
          net_nodes' = Append(net_nodes, n)
    /\ UNCHANGED net_edges

\* add_edge(Edge(source=s, target=t, ...)) for a new pair of papers of the
\* network.
NetAddEdge ==
    /\ Len(net_edges) < MaxNetEdges
    /\ \E s, t \in Range(net_nodes) :
          /\ <<s, t>> \notin Range(net_edges)
          /\ net_edges' = Append(net_edges, <<s, t>>)
    /\ UNCHANGED net_nodes

\* The nodes joined to a node of S by an edge, and S.
RECURSIVE Grow(_, _)
Grow(g, S) ==
    LET T == S \cup {m \in g.nodes : \E n \in S : {n, m} \in DOMAIN g.adj}
    IN  IF T = S THEN S ELSE Grow(g, T)

ComponentOf(g, n) == Grow(g, {n})

\* networkx.connected_components(G): the component of each node not seen
\* yet, in the order of the nodes of G.
RECURSIVE connected_components(_, _, _)
connected_components(g, order, seen) ==
    IF order = <<>> THEN <<>>
    ELSE IF Head(order) \in seen
    THEN connected_components(g, Tail(order), seen)
    ELSE <<ComponentOf(g, Head(order))>>
            \o connected_components(g, Tail(order),
                                    seen \cup ComponentOf(g, Head(order)))

\* Python's max(seq) on sets: an item replaces the best one so far when it
\* is greater, which for sets means a proper superset.
RECURSIVE PyMaxFrom(_, _)
PyMaxFrom(best, rest) ==
    IF rest = <<>> THEN best
    ELSE PyMaxFrom(IF best \subseteq Head(rest) /\ best # Head(rest)
                   THEN Head(rest) ELSE best,
                   Tail(rest))

\* max(seq, default=d)
PyMax(seq, d) == IF seq = <<>> THEN d ELSE PyMaxFrom(Head(seq), Tail(seq))

\* CitationNetwork.get_network_statistics (lines 604-617); the call changes
\* nothing.  Fractions are pairs <<num, den>>.
get_network_statistics ==
    IF net_nodes = <<>> THEN EmptyDict
    ELSE LET components == connected_components(net_graph, net_nodes, {})
         IN  [total_papers |-> Len(net_nodes),
              total_citations |-> Len(net_edges),
              network_density |-> Density(net_graph),
              avg_citations_per_paper |-> <<Len(net_edges), Len(net_nodes)>>,
              connected_components |-> Len(components),
              largest_component_size |-> Cardinality(PyMax(components, {}))]

(***************************************************************************)
(* OpenAlexFetcher._batch_by_or_syntax (openalex_fetcher.py 240-263)       *)
(* called on its own, with any id list and any batch size >= 1.            *)
(***************************************************************************)
VARIABLES
    or_pc,          \* "idle", "done" (the call returned)
    or_ids,         \* the argument ids
    or_batch_size,  \* the argument batch_size
    or_batches      \* the list returned

batchVars == <<or_pc, or_ids, or_batch_size, or_batches>>

MaxOrIds == 101

MaxOrBatchSize == 101

InitBatch ==
    /\ or_pc = "idle"
    /\ or_ids = <<>>
    /\ or_batch_size = 1
    /\ or_batches = <<>>

\* A call _batch_by_or_syntax(ids, size); the ids are numbered.
CallBatch ==
    /\ or_pc = "idle"
    /\ \E n \in 0..MaxOrIds, size \in 1..MaxOrBatchSize :
          /\ or_ids' = [i \in 1..n |-> i]
          /\ or_batch_size' = size
          /\ or_batches' = batch_by_or_syntax([i \in 1..n |-> i], size)
    /\ or_pc' = "done"

(***************************************************************************)
(* CitationNetwork.build_from_openalex (network.py 212-316), the build     *)
(* from lists.  Its node loop has the shape of the loops of                *)
(* build_from_openalex_streaming (346-390) and of                          *)
(* CollaborationNetwork.build_from_openalex (747-780): no test for an id   *)
(* seen before.  Its edge part (282-314) calls add_edge only and leaves    *)
(* self.nodes alone.                                                       *)
(***************************************************************************)
VARIABLES
    bo_pc,              \* "idle", "nodes" (loop of line 234), "done"
    bo_nodes,           \* NetworkBase.nodes: id -> Node
    bo_valid_node_ids,  \* local valid_node_ids
    bo_idx,             \* the number of records the loop has taken
    bo_first_record     \* history: id -> the first node record with that id

boVars == <<bo_pc, bo_nodes, bo_valid_node_ids, bo_idx, bo_first_record>>

MaxListNodes == 4

InitBuildFromOpenalex ==
    /\ bo_pc = "idle"
    /\ bo_nodes = EmptyDict
    /\ bo_valid_node_ids = {}
    /\ bo_idx = 0
    /\ bo_first_record = EmptyDict

\* NetworkBase.add_node (lines 49-52): self.nodes[node.id] = node
add_node(nodemap, node) == Store(nodemap, node.id, node)

\* A call network.build_from_openalex(nodes, edges) on a new network; with
\* an empty node list it returns at once (lines 227-229).
CallBuildFromOpenalex ==
    /\ bo_pc = "idle"
    /\ \E empty \in BOOLEAN :
          bo_pc' = IF empty THEN "done" ELSE "nodes"
    /\ bo_nodes' = EmptyDict
    /\ bo_valid_node_ids' = {}
    /\ bo_idx' = 0
    /\ bo_first_record' = EmptyDict

\* lines 234-277: one iteration of the node loop, on the next record.
BuildAddNode ==
    /\ bo_pc = "nodes"
    /\ bo_idx < MaxListNodes
    /\ bo_idx' = bo_idx + 1
    /\ \E rec \in NodeRecords :
          LET node_id == IF IsDict(rec) THEN Lookup(rec, "id", None) ELSE None
          IN  IF Falsy(rec) \/ NoId(node_id)
              THEN UNCHANGED <<bo_nodes, bo_valid_node_ids, bo_first_record>>
              ELSE /\ bo_valid_node_ids' = bo_valid_node_ids \cup {node_id}
                   /\ bo_nodes' = add_node(bo_nodes, NodeOf(rec))
                   /\ bo_first_record' =
                         IF node_id \in DOMAIN bo_first_record
                         THEN bo_first_record
                         ELSE Store(bo_first_record, node_id, rec)
    /\ UNCHANGED bo_pc

\* lines 279-316: the node list is exhausted; the edges are added and the
\* build returns.
BuildAddEdges ==
    /\ bo_pc = "nodes"
    /\ bo_idx > 0
    /\ bo_pc' = "done"
    /\ UNCHANGED <<bo_nodes, bo_valid_node_ids, bo_idx, bo_first_record>>

(***************************************************************************)
(* The specifications, one per component.                                  *)
(***************************************************************************)
vars == <<limiterVars, requestVars, fetchVars, aggVars, buildVars, netVars,
         batchVars, boVars>>

\* Every component idle, as after construction.
Init ==
    /\ InitLimiter /\ InitRequest /\ InitFetch /\ InitAgg /\ InitBuild
    /\ InitNetwork /\ InitBatch /\ InitBuildFromOpenalex

NextLimiter ==
    \/ Tick /\ UNCHANGED <<requestVars, fetchVars, aggVars, buildVars, netVars, batchVars, boVars>>
    \/ \E t \in Threads : Call(t) /\ UNCHANGED <<requestVars, fetchVars, aggVars, buildVars, netVars, batchVars, boVars>>
    \/ \E t \in Threads : Enter(t) /\ UNCHANGED <<requestVars, fetchVars, aggVars, buildVars, netVars, batchVars, boVars>>
    \/ \E t \in Threads : CheckTimeout(t) /\ UNCHANGED <<requestVars, fetchVars, aggVars, buildVars, netVars, batchVars, boVars>>
    \/ \E t \in Threads : Wake(t) /\ UNCHANGED <<requestVars, fetchVars, aggVars, buildVars, netVars, batchVars, boVars>>

SpecLimiter == Init /\ [][NextLimiter]_vars

NextRequest ==
    \/ CallRequest /\ UNCHANGED <<limiterVars, fetchVars, aggVars, buildVars, netVars, batchVars, boVars>>
    \/ RateLimit /\ UNCHANGED <<limiterVars, fetchVars, aggVars, buildVars, netVars, batchVars, boVars>>
    \/ Get(PlainBodies) /\ UNCHANGED <<limiterVars, fetchVars, aggVars, buildVars, netVars, batchVars, boVars>>

SpecRequest == Init /\ [][NextRequest]_vars

NextFetch ==
    \/ CallSearch /\ UNCHANGED <<limiterVars, requestVars, aggVars, buildVars, netVars, batchVars, boVars>>
    \/ FetchPage /\ UNCHANGED <<limiterVars, requestVars, aggVars, buildVars, netVars, batchVars, boVars>>

SpecFetch == Init /\ [][NextFetch]_vars

\* The loop of lines 402-446 runs in one thread with nothing to wait for but
\* session.get, which answers or raises within its timeout of 30 s (line
\* 417): an iteration that can run does run.
SpecFetchFair == Init /\ [][NextFetch]_vars /\ WF_fetchVars(FetchPage)

NextBuild ==
    \/ CallBuild /\ UNCHANGED <<limiterVars, requestVars, fetchVars, aggVars, netVars, batchVars, boVars>>
    \/ AddNode /\ UNCHANGED <<limiterVars, requestVars, fetchVars, aggVars, netVars, batchVars, boVars>>
    \/ EndNodes /\ UNCHANGED <<limiterVars, requestVars, fetchVars, aggVars, netVars, batchVars, boVars>>
    \/ ConsumeEdge /\ UNCHANGED <<limiterVars, requestVars, fetchVars, aggVars, netVars, batchVars, boVars>>
    \/ EndEdges /\ UNCHANGED <<limiterVars, requestVars, fetchVars, aggVars, netVars, batchVars, boVars>>

NextAgg ==
    \/ CallAggregate /\ UNCHANGED <<limiterVars, requestVars, fetchVars, buildVars, netVars, batchVars, boVars>>
    \/ AggPage /\ UNCHANGED <<limiterVars, requestVars, fetchVars, buildVars, netVars, batchVars, boVars>>

SpecAgg == Init /\ [][NextAgg]_vars

SpecBuild == Init /\ [][NextBuild]_vars

NextNetwork ==
    \/ NetAddNode
         /\ UNCHANGED <<limiterVars, requestVars, fetchVars, aggVars, buildVars, batchVars, boVars>>
    \/ NetAddEdge
         /\ UNCHANGED <<limiterVars, requestVars, fetchVars, aggVars, buildVars, batchVars, boVars>>

SpecNetwork == Init /\ [][NextNetwork]_vars

NextBatch ==
    \/ CallBatch
         /\ UNCHANGED <<limiterVars, requestVars, fetchVars, aggVars, buildVars,
                        netVars, boVars>>

SpecBatch == Init /\ [][NextBatch]_vars

NextBuildFromOpenalex ==
    \/ CallBuildFromOpenalex
         /\ UNCHANGED <<limiterVars, requestVars, fetchVars, aggVars, buildVars,
                        netVars, batchVars>>
    \/ BuildAddNode
         /\ UNCHANGED <<limiterVars, requestVars, fetchVars, aggVars, buildVars,
                        netVars, batchVars>>
    \/ BuildAddEdges
         /\ UNCHANGED <<limiterVars, requestVars, fetchVars, aggVars, buildVars,
                        netVars, batchVars>>

SpecBuildFromOpenalex == Init /\ [][NextBuildFromOpenalex]_vars

(***************************************************************************)
(* C1: any two grants of one limiter (values written to                    *)
(* last_request_time by calls of acquire that return True), by whatever    *)
(* callers, are at least min_interval apart, and the recorded grant time   *)
(* never decreases.                                                        *)
(***************************************************************************)
C1_GrantSpacing ==
    /\ \A i, j \in DOMAIN grants :
          i < j => grants[j] - grants[i] >= MinInterval
    /\ grants # <<>> => last_request_time = grants[Len(grants)]

\* Two grants exactly min_interval apart, the second one made after a sleep
\* while another caller was queueing for the lock.
C1_Witness ==
    /\ Len(grants) >= 2
    /\ grants[2] - grants[1] = MinInterval
    /\ \E t \in Threads : pc[t] = "waiting"

(***************************************************************************)
(* C10: a call of _make_request performs at most max_retries + 1 HTTP      *)
(* attempts, 429 responses and timeouts counted together, and ends by      *)
(* returning the body of a successful (last) attempt or by raising the     *)
(* failure of the last attempt; it never ends without a response.          *)
(***************************************************************************)
C10_BoundedAttempts ==
    /\ Len(http_log) <= max_retries + 1
    /\ req_pc = "done" =>
          /\ req_result.kind \in {"returned", "raised"}
          /\ req_result.kind = "returned" =>
                /\ http_log[Len(http_log)] = "200"
                /\ req_result.value \in PlainBodies
          /\ req_result.kind = "raised" =>
                req_result.value =
                    CASE http_log[Len(http_log)] = "429" -> "HTTPError 429"
                      [] http_log[Len(http_log)] = "500" -> "HTTPError 500"
                      [] http_log[Len(http_log)] = "200_invalid_json" ->
                            "JSONDecodeError"
                      [] OTHER -> http_log[Len(http_log)]

\* A call that used every attempt, on a mix of 429 responses and timeouts,
\* and then raised.
C10_Witness ==
    /\ req_pc = "done"
    /\ max_retries = 2
    /\ http_log = <<"429", "Timeout", "429">>
    /\ req_result = [kind |-> "raised", value |-> "HTTPError 429"]

(***************************************************************************)
(* C2: whatever the server answers and whatever the limit, the paged fetch *)
(* returns at most limit records: the records received beyond limit are    *)
(* cut off, and what is returned is a prefix of the records received, in   *)
(* page order.                                                             *)
(***************************************************************************)
C2_AtMostLimit ==
    fetch_pc = "done" =>
        /\ Len(fetch_result) <= limit
        /\ Len(fetch_result) = Min(limit, Len(received))
        /\ fetch_result = SubSeq(received, 1, Len(fetch_result))

\* A fetch of two pages whose last page went beyond the limit and was cut.
C2_Witness ==
    /\ fetch_pc = "done"
    /\ Len(sent_cursors) = 2
    /\ Len(received) > limit
    /\ Len(fetch_result) = limit
    /\ limit >= 2

(***************************************************************************)
(* The streaming build's result as a function of its inputs: the total     *)
(* weight the consumed candidates give to a pair of valid ids.             *)
(***************************************************************************)
RECURSIVE BagSum(_, _, _)
BagSum(cands, bag, key) ==
    IF cands = {} THEN 0
    ELSE LET c == CHOOSE x \in cands : TRUE
         IN  (IF WellFormed(c) /\ <<c.source, c.target>> = key
              THEN CopiesIn(c, bag) * Lookup(c, "weight", 1)
              ELSE 0)
             + BagSum(cands \ {c}, bag, key)

TotalWeight(key) == BagSum(BagToSet(consumed), consumed, key)

EdgeSet == {<<edges[i].source, edges[i].target, edges[i].weight>> :
               i \in DOMAIN edges}

(***************************************************************************)
(* C4: whatever node sequence the streaming build is given, also one that  *)
(* repeats an id, the built graph has exactly one node per distinct valid  *)
(* id, and that node carries the label and the metadata of the first       *)
(* record with that id.                                                    *)
(***************************************************************************)
C4_FirstOccurrenceWins ==
    build_pc = "done" =>
        /\ DOMAIN nodes = DOMAIN first_record
        /\ graph.nodes = DOMAIN first_record
        /\ \A i \in DOMAIN nodes :
              /\ nodes[i].id = i
              /\ nodes[i].label = NodeOf(first_record[i]).label
              /\ nodes[i].metadata = NodeOf(first_record[i]).metadata

\* A build whose node list named one id three times.
C4_Witness ==
    /\ build_pc = "done"
    /\ duplicate_id_count = 2
    /\ DOMAIN nodes = {"W1"}
    /\ nodes["W1"].label = SubSeq(LongTitle, 1, LabelCap)

(***************************************************************************)
(* C5: in the streaming build, consuming an edge candidate whose source or *)
(* target is not in the valid node-id set of the call leaves the           *)
(* accumulated weight of every pair unchanged, and no edge of the graph    *)
(* has an endpoint outside that set.                                       *)
(***************************************************************************)
C5_UnknownEndpointExcluded ==
    /\ [][\A c \in EdgeCandidates :
            (/\ consumed' = consumed (+) SetToBag({c})
             /\ ~(/\ Lookup(c, "source", None) \in valid_node_ids
                  /\ Lookup(c, "target", None) \in valid_node_ids))
            => edge_weights' = edge_weights]_vars
    /\ [](\A i \in DOMAIN edges :
            edges[i].source \in valid_node_ids
            /\ edges[i].target \in valid_node_ids)

\* A finished build that consumed a candidate from a valid id to an id that
\* is no node, next to candidates it accumulated.
C5_Witness ==
    /\ build_pc = "done"
    /\ valid_node_ids = {"W1"}
    /\ BagIn([source |-> "W1", target |-> "W2"], consumed)
    /\ BagIn([source |-> "W1", target |-> "W1"], consumed)
    /\ edge_weights = <<[key |-> <<"W1", "W1">>, weight |-> 1]>>

(***************************************************************************)
(* C6: the accumulated weight of every pair depends only on the multiset   *)
(* of the candidates consumed, not on their order: it is the sum of their  *)
(* weights; so every permutation of a stream yields the same weights and   *)
(* the same set of materialized edges.                                     *)
(***************************************************************************)
C6_OrderIndependent ==
    /\ \A a, b \in PaperIds :
          WeightOf(edge_weights, <<a, b>>) =
             IF a \in valid_node_ids /\ b \in valid_node_ids
             THEN TotalWeight(<<a, b>>) ELSE 0
    /\ build_pc = "done" =>
          EdgeSet = {<<a, b, TotalWeight(<<a, b>>)>> :
                        <<a, b>> \in {k \in valid_node_ids \X valid_node_ids :
                           TotalWeight(k) >= min_citations}}

\* A finished build in which one pair got two different weights, so that
\* keeping only one of them would depend on the order.
C6_Witness ==
    /\ build_pc = "done"
    /\ BagIn([source |-> "W1", target |-> "W2"], consumed)
    /\ BagIn([source |-> "W1", target |-> "W2", weight |-> 2], consumed)
    /\ <<"W1", "W2", 3>> \in EdgeSet

(***************************************************************************)
(* C7: for the same nodes and candidates, every edge materialized with the *)
(* threshold min_citations is materialized, with the same weight, with any *)
(* lower threshold.                                                        *)
(***************************************************************************)
C7_ThresholdMonotone ==
    build_pc = "done" =>
        \A m \in 1..min_citations :
            Range(edges) \subseteq Range(Materialize(edge_weights, m))

\* A build with threshold 2 that kept an edge and dropped a pair the
\* threshold 1 would have kept.
C7_Witness ==
    /\ build_pc = "done"
    /\ min_citations = 2
    /\ Len(edges) = 1
    /\ Len(Materialize(edge_weights, 1)) = 2

(***************************************************************************)
(* C8: the reported density equals 2E/(N(N-1)) when N > 1 and 0 when       *)
(* N <= 1, N and E being the reported total_nodes and total_edges.         *)
(***************************************************************************)
C8_DensityFormula ==
    build_pc = "done" =>
        LET N == to_json_metadata.total_nodes
            E == to_json_metadata.total_edges
            d == to_json_metadata.network_density
        IN  IF N > 1
            THEN d[1] * (N * (N - 1)) = 2 * E * d[2]
            ELSE d[1] = 0

\* ceil(n / s) for s > 0
CeilDiv(n, s) == (n + s - 1) \div s

(***************************************************************************)
(* C3: get_collaboration_by_authors_batch starts exactly one pagination    *)
(* run for each pair of batch indices (i, j) with i <= j, i = j included,  *)
(* and none for i > j; for N ids and the batch size S in use that makes    *)
(* B(B+1)/2 batch-pair queries with B = ceil(N/S), whether or not          *)
(* individual queries fail.                                                *)
(***************************************************************************)
C3_BatchPairQueries ==
    /\ \A i \in DOMAIN queries : queries[i][1] <= queries[i][2]
    /\ \A i, j \in DOMAIN queries : i # j => queries[i] # queries[j]
    /\ total_requests = Len(queries)
    /\ agg_pc # "idle" /\ author_ids # <<>> =>
          Len(batches) = CeilDiv(Len(author_ids), Min(batch_size, OrSyntaxCap))
    /\ agg_pc = "done" =>
          LET B == Len(batches)
          IN  /\ Range(queries) =
                    {p \in (0..(B - 1)) \X (0..(B - 1)) : p[1] <= p[2]}
              /\ 2 * Len(queries) = B * (B + 1)

\* A call with three batches that made all six queries although the request
\* of the second one failed, and that found collaborations in the others.
C3_Witness ==
    /\ agg_pc = "done"
    /\ Len(batches) = 3
    /\ Len(queries) = 6
    /\ <<0, 1>> \in failed
    /\ collaborations # EmptyDict

(***************************************************************************)
(* C9 as stated: a call with 120 author ids works with batch size 60, has  *)
(* 2 batches and makes exactly 3 batch-pair queries.                       *)
(***************************************************************************)
C9_TwoBatchesThreeQueries ==
    agg_pc = "done" /\ Len(author_ids) = 120 =>
        /\ batch_size = 60
        /\ Len(batches) = 2
        /\ Len(queries) = 3

(***************************************************************************)
(* C9, amended: a call with 120 author ids works with the batch size of    *)
(* the table, 50 (the caller cannot choose it), has 3 batches of 50, 50    *)
(* and 20 ids and makes exactly 6 batch-pair queries.                      *)
(***************************************************************************)
C9_ThreeBatchesSixQueries ==
    agg_pc # "idle" /\ Len(author_ids) = 120 =>
        /\ batch_size = 50
        /\ Len(batches) = 3
        /\ <<Len(batches[1]), Len(batches[2]), Len(batches[3])>> = <<50, 50, 20>>
        /\ Len(queries) <= 6
        /\ agg_pc = "done" =>
              queries = <<<<0, 0>>, <<0, 1>>, <<0, 2>>,
                          <<1, 1>>, <<1, 2>>, <<2, 2>>>>

\* A finished call with 120 author ids.
C9_Witness ==
    /\ agg_pc = "done"
    /\ Len(author_ids) = 120
    /\ total_requests = 6

(***************************************************************************)
(* C11: in _execute_search a page request that receives HTTP 429 or times  *)
(* out is not the end of the fetch: the fetch does not return normally     *)
(* after such a failure (the page is retried, and the failure raised once  *)
(* the retries are used up).  fetch_pc = "done" is the return of line 451. *)
(***************************************************************************)
C11_FetchFailureNotReturned ==
    fetch_failure \in {"429", "Timeout"} => fetch_pc # "done"

(***************************************************************************)
(* C12: every page request sent, by the loop of _execute_search            *)
(* (sent_cursors) as by _make_request (http_log), has a call of            *)
(* rate_limiter.acquire of its own before it.                              *)
(***************************************************************************)
C12_AcquireBeforeEveryPage ==
    /\ Len(sent_cursors) <= acquire_calls
    /\ Len(http_log) <= acquire_calls

(***************************************************************************)
(* C13: a batch pair that fails (its request raises after the retries, or  *)
(* its tally raises) ends nothing but its own pagination: no step of the   *)
(* aggregation loses or changes a weight accumulated before, every batch   *)
(* pair is still queried, and the call returns, with all the weights       *)
(* accumulated.                                                            *)
(***************************************************************************)
C13_PartialFailureTolerated ==
    /\ [][agg_pc # "idle" =>
             \A k \in DOMAIN collaborations :
                 /\ k \in DOMAIN collaborations'
                 /\ collaborations'[k] = collaborations[k]]_vars
    /\ [](/\ failed \subseteq Range(queries)
          /\ agg_pc = "done" /\ author_ids # <<>> =>
                /\ agg_result = {collaborations[k] : k \in DOMAIN collaborations}
                /\ Range(queries) =
                      {p \in (0..(Len(batches) - 1)) \X (0..(Len(batches) - 1)) :
                          p[1] <= p[2]})

\* A call with two batches whose first request failed at once and that
\* returned the collaboration found by a later batch pair.
C13_Witness ==
    /\ agg_pc = "done"
    /\ failed = {<<0, 0>>}
    /\ Len(queries) = 3
    /\ agg_result # {}

(***************************************************************************)
(* C14: after build_from_openalex_streaming_generator returns, every valid *)
(* node id (the non-empty id of a well-formed record of the node list) is  *)
(* a node of the node map and of the graph, with or without a retained     *)
(* edge, and the two node sets are equal.                                  *)
(***************************************************************************)
C14_IsolatedNodesKept ==
    build_pc = "done" =>
        /\ DOMAIN first_record = valid_node_ids
        /\ valid_node_ids \subseteq DOMAIN nodes
        /\ valid_node_ids \subseteq graph.nodes
        /\ DOMAIN nodes = graph.nodes

\* A finished build that retained an edge and has a node without any.
C14_Witness ==
    /\ build_pc = "done"
    /\ edges # <<>>
    /\ \E n \in valid_node_ids : Degree(graph, n) = 0

(***************************************************************************)
(* C15: after a build, the number of edges reported (the length of the     *)
(* edge list) is the number of edges of the underlying graph, and the      *)
(* number of nodes reported is the number of its nodes, mutual citations   *)
(* and self-references included.                                           *)
(***************************************************************************)
C15_CountsConsistent ==
    build_pc = "done" =>
        /\ Len(edges) = Cardinality(DOMAIN graph.adj)
        /\ Cardinality(DOMAIN nodes) = Cardinality(graph.nodes)

(***************************************************************************)
(* C16: get_node_importance with a metric name that is none of degree,     *)
(* betweenness, closeness, pagerank returns what the degree metric         *)
(* returns, each node's degree divided by the largest degree of the graph, *)
(* and never raises, whatever the graph, one with nodes and no edge        *)
(* included.                                                               *)
(***************************************************************************)
C16_UnknownMetricIsDegree ==
    build_pc = "done" =>
        LET answer == get_node_importance(graph, "influence")
        IN  /\ answer = get_node_importance(graph, "degree")
            /\ answer.kind = "returned"
            /\ \A n \in graph.nodes :
                  answer.value[n] =
                     <<Degree(graph, n),
                       MaxOf({Degree(graph, x) : x \in graph.nodes})>>

(***************************************************************************)
(* C17: for every non-empty citation graph, get_network_statistics reports *)
(* as connected_components the number of connected components and as       *)
(* largest_component_size the largest number of nodes of a component.      *)
(***************************************************************************)
C17_ComponentStatistics ==
    net_nodes # <<>> =>
        LET sizes == {Cardinality(ComponentOf(net_graph, n)) :
                         n \in Range(net_nodes)}
        IN  /\ get_network_statistics.connected_components =
                  Cardinality({ComponentOf(net_graph, n) : n \in Range(net_nodes)})
            /\ get_network_statistics.largest_component_size = MaxOf(sizes)

\* A node record that is absent or no record, or has no id or an empty one.
MalformedNode(rec) == ~IsDict(rec) \/ "id" \notin DOMAIN rec \/ rec.id = ""

\* An edge candidate that is absent or no record, or lacks an endpoint.
MalformedCandidate(cand) ==
    ~IsDict(cand) \/ "source" \notin DOMAIN cand \/ "target" \notin DOMAIN cand

(***************************************************************************)
(* C18: in a streaming build, the iteration of the node loop on a          *)
(* malformed node record, and the iteration of the edge loop on a          *)
(* malformed edge candidate, raise nothing (the loop goes on) and leave    *)
(* the node map, the graph, the valid ids and every accumulated weight as  *)
(* they were; the malformed node record adds one to exactly one of the     *)
(* discard counters.                                                       *)
(***************************************************************************)
C18_MalformedSkipped ==
    /\ [][node_idx' = node_idx + 1 /\ MalformedNode(last_record') =>
             /\ build_pc' = "nodes"
             /\ UNCHANGED <<nodes, graph, paper_data, valid_node_ids,
                            edge_weights, duplicate_id_count>>
             /\ <<skipped_count', null_id_count'>> \in
                   {<<skipped_count + 1, null_id_count>>,
                    <<skipped_count, null_id_count + 1>>}]_vars
    /\ [][edge_idx' = edge_idx + 1 =>
             LET cand == CHOOSE c \in BagToSet(consumed') :
                            CopiesIn(c, consumed') > CopiesIn(c, consumed)
             IN  MalformedCandidate(cand) =>
                    /\ build_pc' = "edges"
                    /\ UNCHANGED <<nodes, graph, paper_data, valid_node_ids,
                                   edge_weights>>]_vars

\* A build that discarded a node record that is no record and one without
\* an id, accumulated a weight and consumed a malformed candidate after it.
C18_Witness ==
    /\ build_pc = "edges"
    /\ skipped_count >= 1
    /\ null_id_count >= 1
    /\ edge_weights # <<>>
    /\ \E c \in BagToSet(consumed) : MalformedCandidate(c)
    /\ BagCardinality(consumed) > Len(edge_weights)

\* The concatenation of the groups of a list of groups.
RECURSIVE Flatten(_)
Flatten(groups) ==
    IF groups = <<>> THEN <<>> ELSE Head(groups) \o Flatten(Tail(groups))

(***************************************************************************)
(* C19: for any id list and any batch size >= 1, _batch_by_or_syntax       *)
(* returns a list of non-empty groups of at most min(batch_size, 100) ids  *)
(* each, whose concatenation is the input list: the groups are consecutive *)
(* slices and every position of the input lands in exactly one of them.    *)
(***************************************************************************)
C19_BatchPartition ==
    or_pc = "done" =>
        /\ \A k \in DOMAIN or_batches :
              /\ or_batches[k] # <<>>
              /\ Len(or_batches[k]) <= Min(or_batch_size, 100)
        /\ Flatten(or_batches) = or_ids

\* A call with more than 100 ids and a batch size above the cap.
C19_Witness ==
    /\ or_pc = "done"
    /\ or_batch_size > 100
    /\ Len(or_ids) > 100
    /\ Len(or_batches) = 2
    /\ Len(or_batches[1]) = 100

(***************************************************************************)
(* C20: a request whose attempt fails with a connection failure that is no *)
(* timeout is retried after a backoff sleep, so that the connection        *)
(* failure is raised to the caller only when the max_retries + 1 attempts  *)
(* are used up.                                                            *)
(***************************************************************************)
C20_ConnectionErrorRetried ==
    req_pc = "done" /\ req_result = [kind |-> "raised", value |-> "ConnectionError"]
        => /\ Len(http_log) = max_retries + 1
           /\ Len(slept) = max_retries

\* C21: within one _make_request call, the delay slept before each retry is
\* exactly twice the delay slept before the previous retry, whatever mix of
\* HTTP 429 responses and timeouts caused the retries.
C21_BackoffDoubles ==
    \A i \in 2..Len(slept) : slept[i] = 2 * slept[i - 1]

\* C22: the paged fetch sends a page request only while the cursor is non-empty
\* and fewer than limit records are accumulated; while that holds and no
\* request has failed its next step is the next page request; once the
\* fetch has ended without a failure the cursor is empty/absent or the count
\* has reached limit; with limit <= 0 no request is sent.  Hence a running
\* fetch ends on every server that answers with an empty cursor within the
\* MaxPages pages the model lets it serve.
C22_StopsAtEmptyCursorOrLimit ==
    /\ [][Len(sent_cursors') > Len(sent_cursors) =>
             /\ Truthy(cursor)
             /\ Len(all_results) < limit
             /\ sent_cursors' = Append(sent_cursors, cursor)]_vars
    /\ [](/\ fetch_pc = "loop" <=>
               /\ fetch_pc \notin {"idle", "done"}
               /\ Truthy(cursor)
               /\ Len(all_results) < limit
               /\ fetch_failure = None
          /\ fetch_pc = "done" /\ fetch_failure = None =>
               ~Truthy(cursor) \/ Len(all_results) >= limit
          /\ limit <= 0 => sent_cursors = <<>>)
    /\ (fetch_pc = "loop" ~> (fetch_pc = "done" \/ Len(sent_cursors) = MaxPages))

C22_Witness ==
    /\ fetch_pc = "done"
    /\ fetch_failure = None
    /\ Len(sent_cursors) = 2
    /\ ~Truthy(cursor)
    /\ Len(all_results) < limit

\* The pairs C23 lets one record count for: the unordered pairs of distinct
\* ids among the record's authors of the batch (within-batch query), or of one
\* author of batch a and a different one of batch b (cross-batch query).
PairsOfRecord(work, a, b) ==
    LET ma == Range(Members(work, batches[a + 1]))
        mb == Range(Members(work, batches[b + 1]))
    IN  {ShortPair(q[1], q[2]) : q \in {r \in ma \X mb : r[1] # r[2]}}

\* C23: every fetched record, also one that names an author more than once,
\* adds exactly 1 to the count of each pair of distinct batch members among
\* its authors and nothing to any other pair, and no pair of an author with
\* itself is ever created.
C23_OnePerRecordAndPair ==
    /\ \A k \in DOMAIN collaborations : k[1] # k[2]
    /\ agg_pc = "paging" /\ ~(\E w \in DOMAIN all_works : Raises(all_works[w])) =>
          LET tally == author_pair_works(all_works, batch_a_idx, batch_b_idx)
          IN  \A p \in DOMAIN tally :
                 /\ p[1] # p[2]
                 /\ tally[p] = Cardinality({w \in DOMAIN all_works :
                        p \in PairsOfRecord(all_works[w], batch_a_idx, batch_b_idx)})

\* C24: while one batch pair is paginated, a page is requested only while the
\* records accumulated for it do not exceed max_papers_per_batch, so the
\* records held when its pagination ends never exceed max_papers_per_batch
\* plus one page.
C24_EarlyStop ==
    /\ agg_pc = "paging" => Len(all_works) <= max_papers_per_batch
    /\ last_tally.held <= max_papers_per_batch + PerPage

\* A pagination that was stopped although the API offered a further page.
C24_Witness ==
    /\ last_tally.held > max_papers_per_batch
    /\ Truthy(last_tally.cursor)

\* The distinct (source, target) pairs with both endpoints valid among the
\* edge candidates consumed so far.
SurvivingPairs ==
    {<<c.source, c.target>> :
        c \in {d \in BagToSet(consumed) :
                  WellFormed(d) /\ BothValid(d.source, d.target, valid_node_ids)}}

\* C25: at every point of the edge loop the weight accumulator has exactly one
\* entry for each distinct (source, target) pair with both endpoints valid
\* seen so far, and consuming a candidate changes nothing of the builder but
\* the accumulator and the candidate counter: no occurrence is recorded
\* anywhere else.
C25_AccumulatorBounded ==
    /\ [](build_pc = "edges" =>
             /\ Len(edge_weights) = Cardinality(SurvivingPairs)
             /\ {edge_weights[i].key : i \in DOMAIN edge_weights} = SurvivingPairs)
    /\ [][build_pc = "edges" /\ build_pc' = "edges" =>
             UNCHANGED <<nodes, edges, graph, paper_data, valid_node_ids,
                         node_idx, skipped_count, null_id_count,
                         duplicate_id_count, min_citations>>]_vars

\* The same valid pair was consumed twice and holds one entry.
C25_Witness ==
    /\ build_pc = "edges"
    /\ Len(edge_weights) = 1
    /\ \E c \in BagToSet(consumed) :
          /\ WellFormed(c)
          /\ BothValid(c.source, c.target, valid_node_ids)
          /\ CopiesIn(c, consumed) = 2

\* C26: acquire returns False exactly when less than min_interval had passed
\* since the last grant (a remaining wait was computed) and the time already
\* spent in the call plus that wait exceeds timeout; it then has not slept
\* and leaves the last-grant time unchanged.  In every other case it returns
\* True and sets the last-grant time to the time of the grant.
C26_FalseExactlyOnTimeout ==
    [][\A t \in Threads :
          pc[t] # "idle" /\ pc'[t] = "idle" =>
             LET refused == /\ pc[t] = "checking"
                            /\ wait_time[t] > 0
                            /\ wait_time[t] >= MinInterval - (clock - last_request_time)
                            /\ (clock - start_time[t]) + wait_time[t] > timeout[t]
             IN  IF refused
                 THEN /\ returned'[t] = "False"
                      /\ last_request_time' = last_request_time
                      /\ grants' = grants
                 ELSE /\ returned'[t] = "True"
                      /\ last_request_time' = clock
                      /\ grants' = Append(grants, clock)]_vars

\* One caller was refused and the other was granted, after an earlier grant.
C26_Witness ==
    /\ returned[1] = "False"
    /\ returned[2] = "True"
    /\ pc[2] = "idle"
    /\ Len(grants) >= 2

\* C27: when rate_limiter.acquire returns False, _make_request neither gives
\* up nor waits: the attempt goes on to session.get as after True, so every
\* call of acquire is followed by the HTTP request of its attempt.
C27_RequestSentAfterRefusal ==
    /\ [][req_pc = "rate_limit" /\ req_pc' # "rate_limit" =>
             /\ req_pc' = "get"
             /\ req_result' = Running
             /\ slept' = slept
             /\ attempt' = attempt
             /\ http_log' = http_log]_vars
    /\ [][req_pc = "get" /\ last_acquire = "False" =>
             /\ Len(http_log') = Len(http_log) + 1
             /\ SubSeq(http_log', 1, Len(http_log)) = http_log]_vars
    /\ [](req_pc \in {"rate_limit", "done"} => Len(http_log) = acquire_calls)

\* A call whose only acquire was refused and whose request was answered.
C27_Witness ==
    /\ req_pc = "done"
    /\ acquire_calls = 1
    /\ last_acquire = "False"
    /\ http_log = <<"200">>
    /\ req_result.kind = "returned"

\* C28: in every build operation, once a node with a given id has been
\* inserted, a later record with the same id is dropped: the stored node
\* keeps the label and metadata of the first record with that id.
C28_FirstRecordKept ==
    \A i \in DOMAIN bo_first_record :
        /\ i \in DOMAIN bo_nodes
        /\ bo_nodes[i] = NodeOf(bo_first_record[i])

C30_ReturnsWithinTimeout ==
    \A t \in Threads :
        pc[t] = "waiting" /\ lock \notin {Unlocked, t} =>
            clock - start_time[t] <= timeout[t]

=============================================================================
